---- MODULE Spec2Model ----
(***************************************************************************)
(* Model of backend.py: a Flask gateway with three routes (GET /,          *)
(* POST /parse-receipt, POST /save-items) in front of two collaborators,   *)
(* an inference service (model.generate_content) and a document store      *)
(* (db.collection(path).add).                                              *)
(*                                                                         *)
(* Texts (HTTP bodies, inference output) are sequences of JSON tokens;     *)
(* json.loads / jsonify are modelled by a parser and a serialiser over     *)
(* those tokens.  Requests are handled concurrently; a save-items handler  *)
(* can be interleaved with other handlers at each add call.                *)
(***************************************************************************)
EXTENDS Integers, Sequences, FiniteSets, TLC

\* ------------------------------------------------------------------ bounds
NumReq == 2      \* number of requests handled concurrently
MaxItems == 3    \* longest JSON array posted to /save-items

ReqIds == 1..NumReq

\* ------------------------------------------------------------ JSON values
\* A decoded JSON value: t is the type, a the atom (scalars, member keys),
\* c the children (array elements, object members as "pair" values).
JV(t, a, c) == [t |-> t, a |-> a, c |-> c]
JNull == JV("null", "null", <<>>)
JArr(elems) == JV("arr", "", elems)
JPair(k, v) == JV("pair", k, <<v>>)
JObj(members) == JV("obj", "", members)

NumberTokens == {"1", "2", "3.49"}
StringTokens == {"\"a\"", "\"b\"", "\"milk\"", "\"eggs\""}
LiteralTokens == {"true", "false", "null"}
\* string tokens in lexicographic order (the order sort_keys uses)
StringOrder == <<"\"a\"", "\"b\"", "\"eggs\"", "\"milk\"">>
KeyRank(k) == CHOOSE n \in 1..Len(StringOrder) : StringOrder[n] = k

IsWs(tok) == tok = " "

RECURSIVE Strip(_)
Strip(text) ==
    IF text = <<>> THEN <<>>
    ELSE IF IsWs(Head(text)) THEN Strip(Tail(text))
    ELSE <<Head(text)>> \o Strip(Tail(text))

\* dict[k] = v on an object's members, kept in key order (a dict compares
\* equal whatever the insertion order; a later duplicate key wins)
RECURSIVE DictPut(_, _, _)
DictPut(members, k, v) ==
    IF members = <<>> THEN <<JPair(k, v)>>
    ELSE IF Head(members).a = k THEN <<JPair(k, v)>> \o Tail(members)
    ELSE IF KeyRank(k) < KeyRank(Head(members).a) THEN <<JPair(k, v)>> \o members
    ELSE <<Head(members)>> \o DictPut(Tail(members), k, v)

ParseFail == [ok |-> FALSE, val |-> JNull, next |-> 0]
ParseOk(v, n) == [ok |-> TRUE, val |-> v, next |-> n]

RECURSIVE ParseValue(_, _)
RECURSIVE ParseElems(_, _, _)
RECURSIVE ParseMembers(_, _, _)

\* value at position i of the whitespace-free token sequence s
ParseValue(s, i) ==
    IF i > Len(s) THEN ParseFail
    ELSE LET tok == s[i] IN
      IF tok \in NumberTokens THEN ParseOk(JV("num", tok, <<>>), i + 1)
      ELSE IF tok \in StringTokens THEN ParseOk(JV("str", tok, <<>>), i + 1)
      ELSE IF tok = "null" THEN ParseOk(JNull, i + 1)
      ELSE IF tok \in LiteralTokens THEN ParseOk(JV("bool", tok, <<>>), i + 1)
      ELSE IF tok = "[" THEN
        IF i + 1 <= Len(s) /\ s[i + 1] = "]" THEN ParseOk(JArr(<<>>), i + 2)
        ELSE ParseElems(s, i + 1, <<>>)
      ELSE IF tok = "{" THEN
        IF i + 1 <= Len(s) /\ s[i + 1] = "}" THEN ParseOk(JObj(<<>>), i + 2)
        ELSE ParseMembers(s, i + 1, <<>>)
      ELSE ParseFail

\* elements of an array, the opening bracket and acc already read
ParseElems(s, i, acc) ==
    LET r == ParseValue(s, i) IN
      IF ~r.ok \/ r.next > Len(s) THEN ParseFail
      ELSE IF s[r.next] = "]" THEN ParseOk(JArr(Append(acc, r.val)), r.next + 1)
      ELSE IF s[r.next] = "," THEN ParseElems(s, r.next + 1, Append(acc, r.val))
      ELSE ParseFail

\* members of an object, the opening brace and acc already read
ParseMembers(s, i, acc) ==
    IF i + 1 > Len(s) \/ s[i] \notin StringTokens \/ s[i + 1] # ":" THEN ParseFail
    ELSE LET r == ParseValue(s, i + 2) IN
      IF ~r.ok \/ r.next > Len(s) THEN ParseFail
      ELSE IF s[r.next] = "}" THEN ParseOk(JObj(DictPut(acc, s[i], r.val)), r.next + 1)
      ELSE IF s[r.next] = "," THEN ParseMembers(s, r.next + 1, DictPut(acc, s[i], r.val))
      ELSE ParseFail

\* json.loads(text): ok = FALSE stands for json.JSONDecodeError
JsonLoads(text) ==
    LET s == Strip(text)
        r == ParseValue(s, 1)
    IN IF r.ok /\ r.next = Len(s) + 1 THEN [ok |-> TRUE, val |-> r.val]
       ELSE [ok |-> FALSE, val |-> JNull]

RECURSIVE JsonDumps(_)
RECURSIVE DumpList(_)
\* the serialisation jsonify writes (compact separators, sorted keys)
JsonDumps(v) ==
    IF v.t = "arr" THEN <<"[">> \o DumpList(v.c) \o <<"]">>
    ELSE IF v.t = "obj" THEN <<"{">> \o DumpList(v.c) \o <<"}">>
    ELSE IF v.t = "pair" THEN <<v.a, ":">> \o JsonDumps(v.c[1])
    ELSE <<v.a>>
\* faulty variant: only the first element is serialised
DumpList_First(vs) == IF vs = <<>> THEN <<>> ELSE JsonDumps(vs[1])
DumpList(vs) ==
    IF vs = <<>> THEN <<>>
    ELSE IF Len(vs) = 1 THEN JsonDumps(vs[1])
    ELSE JsonDumps(vs[1]) \o <<",">> \o DumpList(Tail(vs))


\* ------------------------------------------------------- inputs and texts
NoneVal == "<None>"                    \* Python's None
Users == {"u1", "u2"}
HeaderVals == {NoneVal, ""} \cup Users  \* request.headers.get('X-User-ID')
ImageVals == {"absent", "readable", "unreadable"}

ItemMilk == JObj(<<JPair("\"a\"", JV("str", "\"milk\"", <<>>))>>)
ItemEggs == JObj(<<JPair("\"a\"", JV("str", "\"eggs\"", <<>>))>>)
Items == {ItemMilk, ItemEggs}
ItemSeqs == UNION {[1..n -> Items] : n \in 0..MaxItems}

ObjectText == <<"{", "\"a\"", ":", "1", "}">>
\* bodies a client posts to /save-items: arrays, other JSON values,
\* undecodable text, no body at all
SaveBodies ==
    {JsonDumps(JArr(s)) : s \in ItemSeqs}
      \cup {ObjectText, <<"null">>, <<"[", "{">>, <<>>}

\* a body with its content type: mime is TRUE for application/json
SavePosts == [mime : BOOLEAN, text : SaveBodies]

\* texts the inference service returns
GenTexts ==
    { <<"[", "]">>,
      <<"[", " ", "{", "\"b\"", ":", "1", ",", " ", "\"a\"", ":", "\"milk\"", "}", "]">>,
      ObjectText,
      <<"3.49">>, <<"\"milk\"">>, <<"true">>, <<"null">>,
      <<"Sorry">>, <<"[", "1", ",", "]">>, <<"[", "]", "Sorry">>, <<>> }

GenExcs == {"JSONDecodeError", "ResourceExhausted"}   \* raised by generate_content
AddExcs == {"DeadlineExceeded", "PermissionDenied"}   \* raised by add

\* str(e)
ExcStr(e) ==
    CASE e = "DeadlineExceeded" -> "504 Deadline Exceeded"
      [] e = "PermissionDenied" -> "403 Missing or insufficient permissions."
      [] e = "BadRequest" -> "400 Bad Request: Failed to decode JSON object"
      [] e = "UnsupportedMediaType" -> "415 Unsupported Media Type"
      [] e = "IOError" -> "I/O operation on closed file."
      [] OTHER -> e

GenOutcome(kind, text, exc) == [kind |-> kind, text |-> text, exc |-> exc]
GenOutcomes ==
    {GenOutcome("text", t, "") : t \in GenTexts}
      \cup {GenOutcome("raise", <<>>, e) : e \in GenExcs}
      \cup {GenOutcome("notext", <<>>, "ValueError")}
NoGen == GenOutcome("", <<>>, "")

\* ------------------------------------------------------------------ state
VARIABLES
    db,      \* the Firestore client of lines 26-38, NoneVal when startup failed
    reqs,    \* per request: its inputs, the handler's locals, its response
    store    \* the document store: the set of documents, each under an
             \* identifier the store generated

vars == <<db, reqs, store>>

\* a request not yet received
NoReq ==
    [route |-> "none", pc |-> "idle",
     image |-> "", gen |-> NoGen, calls |-> 0,
     mime |-> FALSE, text |-> <<>>, header |-> NoneVal,
     items_data |-> <<>>, user_id |-> NoneVal, ref |-> <<>>, i |-> 0,
     addLog |-> <<>>,
     status |-> 0, body |-> <<>>, escaped |-> ""]

\* the response `return jsonify(...), status`
Respond(req, status, body) ==
    [req EXCEPT !.pc = "done", !.status = status, !.body = body]
ErrBody(parts) == <<"{", "\"error\"", ":">> \o parts \o <<"}">>
\* an exception leaves the handler
Escape(req, exc) == [req EXCEPT !.pc = "done", !.escaped = exc]

Init ==
    /\ db \in {"client", NoneVal}
    /\ reqs = [r \in ReqIds |-> NoReq]
    /\ store = {}

\* ------------------------------------------------------------------ GET /
home(r) ==
    /\ reqs[r].pc = "idle"
    /\ reqs' = [reqs EXCEPT ![r] =
                  Respond([@ EXCEPT !.route = "home"], 200,
                          <<"The backend server is running!">>)]
    /\ UNCHANGED <<db, store>>

\* ---------------------------------------------------- POST /parse-receipt
\* faulty variant: the check for the image field is missing
HasImage_Always(image) == TRUE
HasImage(image) == image # "absent"          \* 'image' in request.files

\* lines 95-105: the inference call and the mapping of its outcome
CallGemini(req, out) ==
    LET called == [req EXCEPT !.gen = out, !.calls = @ + 1] IN
    IF out.kind = "raise" THEN
        IF out.exc = "JSONDecodeError"
        THEN \* line 101 reads `response`, never assigned
             Escape(called, "UnboundLocalError")
        ELSE Respond(called, 500,
                     ErrBody(<<"An unexpected error occurred with the Gemini API.">>))
    ELSE IF out.kind = "notext" THEN
        \* response.text raises
        Respond(called, 500,
                ErrBody(<<"An unexpected error occurred with the Gemini API.">>))
    ELSE LET parsed_data == JsonLoads(out.text) IN
        IF parsed_data.ok
        THEN Respond(called, 200, JsonDumps(parsed_data.val))
        ELSE Respond(called, 500,
                     ErrBody(<<"Failed to parse data from Gemini. Invalid JSON response.">>))

\* the request carries image; out is what the inference call does if made
parse_receipt(r, image, out) ==
    /\ reqs[r].pc = "idle"
    /\ LET req == [reqs[r] EXCEPT !.route = "parse", !.image = image] IN
         reqs' = [reqs EXCEPT ![r] =
            IF ~HasImage(image)
            THEN Respond(req, 400, ErrBody(<<"No image file provided">>))
            ELSE IF image = "unreadable"
            THEN Respond(req, 500,
                         ErrBody(<<"Failed to read image file: ", ExcStr("IOError")>>))
            ELSE CallGemini(req, out)]
    /\ UNCHANGED <<db, store>>

\* ------------------------------------------------------- POST /save-items
\* faulty variant: the check `db is None` is missing
DbReady_Always(d) == TRUE
DbReady(d) == d # NoneVal                         \* not (db is None)
\* faulty variant: `user_id is None` in place of `not user_id`
Falsy_NoneOnly(user_id) == user_id = NoneVal
Falsy(user_id) == user_id \in {NoneVal, ""}       \* not user_id
IsList(v) == v.t = "arr"                          \* isinstance(items_data, list)

\* request.get_json(): the outcomes, raised = "" when it returns val.
\* Without a JSON content type it returns None or raises, by Flask version.
GetJson(mime, text) ==
    IF ~mime
    THEN {[raised |-> "", val |-> JNull],
          [raised |-> "UnsupportedMediaType", val |-> JNull]}
    ELSE LET l == JsonLoads(text) IN
         IF l.ok THEN {[raised |-> "", val |-> l.val]}
         ELSE {[raised |-> "BadRequest", val |-> JNull]}

\* faulty variant: the user id is left out of the collection path
CollectionPath_NoUser(user_id) ==
    <<"artifacts", "default-app-id", "users", "groceries">>
CollectionPath(user_id) ==
    <<"artifacts", "default-app-id", "users", user_id, "groceries">>

SaveErrBody(e) ==
    ErrBody(<<"An error occurred while saving to the database: ", ExcStr(e)>>)

\* lines 113-133: everything before the write loop, for the body post and
\* the X-User-ID value header
save_items(r, post, header) ==
    /\ reqs[r].pc = "idle"
    /\ \E gj \in GetJson(post.mime, post.text) :
         LET req == [reqs[r] EXCEPT !.route = "save", !.mime = post.mime,
                                    !.text = post.text, !.header = header] IN
         reqs' = [reqs EXCEPT ![r] =
            IF ~DbReady(db)
            THEN Respond(req, 500,
                         ErrBody(<<"Database not initialized. Cannot save data.">>))
            ELSE IF gj.raised # ""
            THEN Respond(req, 500, SaveErrBody(gj.raised))
            ELSE IF ~IsList(gj.val)
            THEN Respond(req, 400,
                         ErrBody(<<"Invalid data format. Expected a JSON array.">>))
            ELSE IF Falsy(header)
            THEN Respond(req, 400,
                         ErrBody(<<"User ID not provided in request headers.">>))
            ELSE [req EXCEPT !.pc = "loop", !.items_data = gj.val.c,
                             !.user_id = header,
                             !.ref = CollectionPath(header), !.i = 1]]
    /\ UNCHANGED <<db, store>>

\* faulty variant: a document id chosen by the handler, the same for every item
AutoId_Fixed(r, i) == <<r, 1>>
\* the identifier the store generates for the i-th document request r adds
AutoId(r, i) == <<r, i>>

\* faulty variant: the exception of add is swallowed inside the loop
AddFailed_Continue(req, e) == [req EXCEPT !.i = @ + 1]
\* the handler's state after add raised e for the current item
AddFailed(req, e) == Respond(req, 500, SaveErrBody(e))

\* lines 136-138: one iteration of the loop, add succeeding or raising
save_items_add(r) ==
    LET req == reqs[r] IN
    /\ req.pc = "loop"
    /\ req.i <= Len(req.items_data)
    /\ LET item == req.items_data[req.i] IN
       \/ /\ store' = store \cup {[id |-> AutoId(r, req.i), path |-> req.ref,
                                     data |-> item]}
          /\ reqs' = [reqs EXCEPT ![r] =
                [req EXCEPT !.i = @ + 1,
                            !.addLog = Append(@, [path |-> req.ref, data |-> item,
                                                  raised |-> ""])]]
       \/ /\ \E e \in AddExcs :
               reqs' = [reqs EXCEPT ![r] =
                 AddFailed([req EXCEPT !.addLog =
                               Append(@, [path |-> req.ref, data |-> item,
                                          raised |-> e])], e)]
          /\ UNCHANGED store
    /\ UNCHANGED db

\* line 140: the loop is over
save_items_return(r) ==
    LET req == reqs[r] IN
    /\ req.pc = "loop"
    /\ req.i > Len(req.items_data)
    /\ reqs' = [reqs EXCEPT ![r] =
          Respond(req, 200,
                  <<"{", "\"message\"", ":", "Successfully saved ",
                    ToString(Len(req.items_data)), " items to Firestore.", "}">>)]
    /\ UNCHANGED <<db, store>>

\* one request, every input
Next ==
    \E r \in {1} :
        \/ home(r)
        \/ \E image \in ImageVals, out \in GenOutcomes : parse_receipt(r, image, out)
        \/ \E post \in SavePosts, header \in HeaderVals : save_items(r, post, header)
        \/ save_items_add(r)
        \/ save_items_return(r)

Spec == Init /\ [][Next]_vars

\* ------------------------------------------------- concurrent requests
\* The requests of a concurrent run: JSON posts of an object or of an array
\* of no, one or MaxItems items alternating the two items, and four outcomes
\* of the inference call.
LightSeqs ==
    {[j \in 1..n |-> IF j % 2 = 1 THEN ItemMilk ELSE ItemEggs] : n \in {0, 1, MaxItems}}
LightPosts ==
    [mime : {TRUE}, text : {JsonDumps(JArr(s)) : s \in LightSeqs} \cup {ObjectText}]
LightGen ==
    {GenOutcome("text", <<"[", "]">>, ""), GenOutcome("text", <<"Sorry">>, "")}
      \cup {GenOutcome("raise", <<>>, e) : e \in GenExcs}

\* the handlers of all requests interleaved
NextConc ==
    \E r \in ReqIds :
        \/ home(r)
        \/ \E image \in ImageVals, out \in LightGen : parse_receipt(r, image, out)
        \/ \E post \in LightPosts, header \in HeaderVals : save_items(r, post, header)
        \/ save_items_add(r)
        \/ save_items_return(r)

SpecConc == Init /\ [][NextConc]_vars

\* ---------------------------------------------------------------- claims
\* what a client sent and what it got back
GroceriesOf(u) == <<"artifacts", "default-app-id", "users", u, "groceries">>
PostedArray(req) ==
    /\ req.route = "save"
    /\ req.mime
    /\ JsonLoads(req.text).ok
    /\ JsonLoads(req.text).val.t = "arr"
Posted(req) == JsonLoads(req.text).val.c
NoAddFailed(req) == \A k \in 1..Len(req.addLog) : req.addLog[k].raised = ""
FirstFailure(req, k) ==
    /\ k \in 1..Len(req.addLog)
    /\ req.addLog[k].raised # ""
    /\ \A j \in 1..(k - 1) : req.addLog[j].raised = ""
IsErrBody(body) ==
    /\ Len(body) >= 5
    /\ SubSeq(body, 1, 3) = <<"{", "\"error\"", ":">>
    /\ body[Len(body)] = "}"
DocsOf(r) == {d \in store : d.id[1] = r}

\* C1: a save-items request with an initialized client, a JSON array of n
\* elements, a non-empty user id and no failing add has issued exactly n add
\* calls, one per element in array order, all against
\* artifacts/default-app-id/users/u/groceries, and answered 200 with a
\* message that reports n.
C1_AddPerElement ==
    \A r \in ReqIds :
      LET req == reqs[r] IN
      (/\ req.pc = "done" /\ DbReady(db) /\ PostedArray(req)
       /\ req.header \in Users /\ NoAddFailed(req))
      => /\ req.addLog = [j \in 1..Len(Posted(req)) |->
                            [path |-> GroceriesOf(req.header),
                             data |-> Posted(req)[j], raised |-> ""]]
         /\ req.status = 200
         /\ req.escaped = ""
         /\ req.body = <<"{", "\"message\"", ":", "Successfully saved ",
                         ToString(Len(Posted(req))), " items to Firestore.", "}">>
C1_Witness ==
    \E r \in ReqIds :
      /\ reqs[r].pc = "done" /\ reqs[r].status = 200 /\ reqs[r].route = "save"
      /\ Len(reqs[r].addLog) = 3
      /\ reqs[r].addLog[1].data # reqs[r].addLog[2].data

\* C2: if the add call for the k-th element is the first to raise, the
\* handler answers 500, issues no add call for the elements after k, and
\* exactly the first k-1 elements are in the store, also after the response.
C2_AbortOnFailure ==
    \A r \in ReqIds : \A k \in 1..MaxItems :
      LET req == reqs[r] IN
      (PostedArray(req) /\ req.header \in Users /\ FirstFailure(req, k))
      => /\ req.pc = "done"
         /\ req.status = 500
         /\ req.escaped = ""
         /\ Len(req.addLog) = k
         /\ \A j \in 1..k : /\ req.addLog[j].data = Posted(req)[j]
                            /\ req.addLog[j].path = GroceriesOf(req.header)
         /\ {[path |-> d.path, data |-> d.data] : d \in DocsOf(r)}
              = {[path |-> GroceriesOf(req.header), data |-> Posted(req)[j]]
                   : j \in 1..(k - 1)}
         /\ Cardinality(DocsOf(r)) = k - 1
C2_Witness ==
    \E r \in ReqIds :
      /\ reqs[r].pc = "done" /\ reqs[r].status = 500
      /\ Len(reqs[r].items_data) = 3
      /\ FirstFailure(reqs[r], 2)
      /\ Cardinality(DocsOf(r)) = 1

\* C3: when the client failed to initialize, every save-items request
\* answers 500 whatever its body and headers, and no add call is issued.
C3_NoDbAlways500 ==
    db = NoneVal =>
      /\ store = {}
      /\ \A r \in ReqIds :
           reqs[r].route = "save" =>
             /\ reqs[r].pc = "done" /\ reqs[r].status = 500
             /\ reqs[r].escaped = "" /\ reqs[r].addLog = <<>>
C3_Witness ==
    /\ db = NoneVal
    /\ \E r \in ReqIds :
         /\ reqs[r].route = "save" /\ reqs[r].pc = "done"
         /\ reqs[r].text = ObjectText /\ reqs[r].header = NoneVal

\* C4: with an initialized client, a save-items request whose body is
\* anything but a JSON array (another JSON value, no body, undecodable text)
\* answers 400 and issues no add call, with or without the header.
C4_NonArray400 ==
    \A r \in ReqIds :
      LET req == reqs[r] IN
      (req.route = "save" /\ DbReady(db) /\ ~PostedArray(req))
      => req.pc = "done" /\ req.status = 400 /\ req.addLog = <<>>

\* C5: with an initialized client and a JSON array body, a save-items
\* request whose X-User-ID header is absent or empty answers 400 and issues
\* no add call; no document lies under an empty user segment.
C5_NoUser400 ==
    /\ \A r \in ReqIds :
         LET req == reqs[r] IN
         (DbReady(db) /\ PostedArray(req) /\ req.header \in {NoneVal, ""})
         => /\ req.pc = "done" /\ req.status = 400
            /\ req.escaped = "" /\ req.addLog = <<>>
    /\ \A d \in store : d.path[4] \notin {NoneVal, ""}
C5_Witness ==
    \E r \in ReqIds :
      /\ DbReady(db) /\ PostedArray(reqs[r]) /\ Len(Posted(reqs[r])) >= 1
      /\ reqs[r].header = "" /\ reqs[r].status = 400

\* C6: a parse-receipt request without an image field answers 400 and the
\* inference collaborator is never called for it.
C6_NoImage400 ==
    \A r \in ReqIds :
      (reqs[r].route = "parse" /\ reqs[r].image = "absent")
      => /\ reqs[r].pc = "done" /\ reqs[r].status = 400
         /\ reqs[r].calls = 0 /\ reqs[r].gen = NoGen
C6_Witness ==
    \E r \in ReqIds :
      reqs[r].route = "parse" /\ reqs[r].image = "absent" /\ reqs[r].pc = "done"

\* C7: a parse-receipt request with a readable image makes exactly one
\* inference call and answers by its outcome: 200 with the decoded value for
\* a text that parses as JSON, 500 with an error body for a text that does
\* not, 500 with an error body when the call raises; no exception escapes.
C7_SingleCall ==
    \A r \in ReqIds :
      LET req == reqs[r] IN
      (req.route = "parse" /\ req.pc = "done" /\ req.image = "readable")
      => /\ req.calls = 1
         /\ req.escaped = ""
         /\ (req.gen.kind = "text" /\ JsonLoads(req.gen.text).ok)
              => /\ req.status = 200
                 /\ JsonLoads(req.body) = JsonLoads(req.gen.text)
         /\ (req.gen.kind = "text" /\ ~JsonLoads(req.gen.text).ok)
              => req.status = 500 /\ IsErrBody(req.body)
         /\ req.gen.kind = "raise"
              => req.status = 500 /\ IsErrBody(req.body)

\* C8 as stated: a parse-receipt request answers 200 only when the inference
\* text decodes to a JSON array.
C8_Only200ForArray ==
    \A r \in ReqIds :
      (reqs[r].route = "parse" /\ reqs[r].status = 200)
      => /\ JsonLoads(reqs[r].gen.text).ok
         /\ JsonLoads(reqs[r].gen.text).val.t = "arr"
\* C8 amended: a parse-receipt request answers 200 exactly when the
\* inference call returned a text that decodes as JSON, of any type, and the
\* body of the 200 response decodes to that same value.
C8_200ForAnyJson ==
    \A r \in ReqIds :
      LET req == reqs[r] IN
      (req.route = "parse" /\ req.pc = "done")
      => /\ req.status = 200 <=>
              /\ req.image = "readable" /\ req.gen.kind = "text"
              /\ JsonLoads(req.gen.text).ok
         /\ req.status = 200 =>
              /\ JsonLoads(req.body).ok
              /\ JsonLoads(req.body).val = JsonLoads(req.gen.text).val
C8_Witness ==
    \E r \in ReqIds :
      /\ reqs[r].route = "parse" /\ reqs[r].status = 200
      /\ reqs[r].gen.text = ObjectText
      /\ JsonLoads(reqs[r].body).val.t = "obj"

\* C9: two requests to the same route that fail in the collaborator call
\* with different exceptions get identical 500 bodies.
CollaboratorFailure(req) ==
    \/ /\ req.route = "save" /\ req.addLog # <<>>
       /\ req.addLog[Len(req.addLog)].raised # ""
    \/ req.route = "parse" /\ req.gen.kind = "raise"
Cause(req) ==
    IF req.route = "save" THEN req.addLog[Len(req.addLog)].raised ELSE req.gen.exc
C9_GenericBody ==
    \A r1, r2 \in ReqIds :
      (/\ reqs[r1].status = 500 /\ reqs[r2].status = 500
       /\ reqs[r1].route = reqs[r2].route
       /\ CollaboratorFailure(reqs[r1]) /\ CollaboratorFailure(reqs[r2])
       /\ Cause(reqs[r1]) # Cause(reqs[r2]))
      => reqs[r1].body = reqs[r2].body

\* C10: under any interleaving the store is append-only and isolated per
\* user: every document lies in the groceries collection of the user id of
\* the save-items request that added it, no step removes or overwrites a
\* document, GET / and parse-receipt add none, and each user's collection
\* holds as many documents as add calls succeeded for that user's requests.
OkAdds(u) ==
    {p \in ReqIds \X (1..MaxItems) :
        /\ reqs[p[1]].header = u
        /\ p[2] <= Len(reqs[p[1]].addLog)
        /\ reqs[p[1]].addLog[p[2]].raised = ""}
StoreIsolated ==
    /\ \A d \in store :
         /\ d.id[1] \in ReqIds
         /\ reqs[d.id[1]].route = "save"
         /\ reqs[d.id[1]].header \in Users
         /\ d.path = GroceriesOf(reqs[d.id[1]].header)
    /\ \A d1, d2 \in store : d1.id = d2.id => d1 = d2
    /\ \A u \in Users :
         Cardinality({d \in store : d.path = GroceriesOf(u)})
           = Cardinality(OkAdds(u))
StoreAppendOnly ==
    /\ store \subseteq store'
    /\ \A r \in ReqIds :
         (reqs'[r] # reqs[r] /\ reqs'[r].route \in {"home", "parse"})
         => store' = store
C10_AppendOnlyIsolated == [](StoreIsolated) /\ [][StoreAppendOnly]_vars
C10_Witness ==
    \E r1, r2 \in ReqIds :
      /\ reqs[r1].header = "u1" /\ reqs[r2].header = "u2"
      /\ reqs[r1].pc = "loop" /\ reqs[r2].pc = "loop"
      /\ Len(reqs[r1].addLog) >= 1 /\ Len(reqs[r2].addLog) >= 2
      /\ Cardinality(store) >= 3
====
